---- MODULE Spec2Model ----
(***************************************************************************)
(* Model of the Metabase MCP server (src/src/index.ts).                    *)
(*                                                                         *)
(* One process: the module-level environment check, the MetabaseServer     *)
(* constructor, and the request handlers registered on the MCP Server.     *)
(* JavaScript runs a handler without interruption from one `await` to the  *)
(* next, so every action below is the code between two await points of one *)
(* request.  The external Metabase service is the environment: it answers  *)
(* every HTTP call either with a response body or with an AxiosError.      *)
(***************************************************************************)
EXTENDS Integers, Sequences, FiniteSets, TLC

(***************************************************************************)
(* Bounds of the model.                                                    *)
(***************************************************************************)
\* requests that may be in flight at the same time (interleaved at awaits)
MaxInFlight == 2
\* requests started in one run
MaxRequests == 3

(***************************************************************************)
(* JavaScript values.  Every value is a record of the same shape so that   *)
(* values of different JavaScript types can be compared.                   *)
(***************************************************************************)
Undef == [t |-> "undefined", n |-> 0, s |-> ""]
Null == [t |-> "null", n |-> 0, s |-> ""]
Num(k) == [t |-> "number", n |-> k, s |-> ""]
Str(x) == [t |-> "string", n |-> 0, s |-> x]
Bool(b) == [t |-> "boolean", n |-> IF b THEN 1 ELSE 0, s |-> ""]
\* a plain object, identified by a number; 0 is the empty one
Obj(k) == [t |-> "object", n |-> k, s |-> ""]
\* an array of k plain objects; 0 is the empty one
Arr(k) == [t |-> "array", n |-> k, s |-> ""]

\* JavaScript truthiness: undefined, null, 0, "" and false are falsy
Truthy(v) ==
  CASE v.t = "undefined" -> FALSE
    [] v.t = "null" -> FALSE
    [] v.t = "number" -> v.n # 0
    [] v.t = "string" -> v.s # ""
    [] v.t = "boolean" -> v.n = 1
    [] OTHER -> TRUE

\* a || b
OrElse(a, b) == IF Truthy(a) THEN a ELSE b

\* a template literal `${prefix}${arg}`
Template(prefix, arg) == [tmpl |-> prefix, arg |-> arg]

\* JSON.stringify(x, null, 2)
JSONStringify(x) == [json |-> x, indent |-> 2]

(***************************************************************************)
(* The ErrorCode enum.                                                     *)
(***************************************************************************)
InternalError == "internal_error"
InvalidRequest == "invalid_request"
InvalidParams == "invalid_params"
MethodNotFound == "method_not_found"

\* new McpError(code, message), thrown out of a handler: a protocol-level error
McpError(code, message) ==
  [kind |-> "error", code |-> code, message |-> message]

(***************************************************************************)
(* State.                                                                  *)
(***************************************************************************)
VARIABLES
  env,            \* process.env: METABASE_URL, _USERNAME, _PASSWORD, _API_KEY
  phase,          \* "load", "checked", "running" or "fatal"
  handlers,       \* methods for which a request handler is registered
  sessionToken,   \* MetabaseServer.sessionToken
  headers,        \* axiosInstance.defaults.headers.common
  pc,             \* per request slot: "idle", "login", "token", "failed", "http",
                  \* "done"
  req,            \* per slot: the inbound request
  calls,          \* per slot: the HTTP calls the request has issued, in order
  responses,      \* per slot: the response bodies the handler has received
  outcome,        \* per slot: the reply or the protocol-level error
  started,        \* requests started so far
  loginCalls,     \* POST /api/session calls issued so far
  loginOks,       \* POST /api/session calls that returned successfully
  loginFails      \* consecutive failed logins since the last success

vars == <<env, phase, handlers, sessionToken, headers, pc, req, calls,
          responses, outcome, started, loginCalls, loginOks, loginFails>>

Slots == 1..MaxInFlight

METABASE_URL == env.METABASE_URL
METABASE_USERNAME == env.METABASE_USERNAME
METABASE_PASSWORD == env.METABASE_PASSWORD
METABASE_API_KEY == env.METABASE_API_KEY

\* an environment variable is unset, set to the empty string, or set
EnvUrlVals == {Undef, Str("http://mb")}
EnvUserVals == {Undef, Str(""), Str("alice")}
EnvPassVals == {Undef, Str(""), Str("secret")}
EnvKeyVals == {Undef, Str(""), Str("mb_key")}

Configs ==
  [METABASE_URL : EnvUrlVals, METABASE_USERNAME : EnvUserVals,
   METABASE_PASSWORD : EnvPassVals, METABASE_API_KEY : EnvKeyVals]

\* the sentinel stored as the session token in API-key mode
ApiKeySentinel == Str("api_key_used")

\* session ids the login endpoint may return
Tokens == {Str("tok1"), Str("tok2")}

NoHeaders == [XApiKey |-> Undef, XMetabaseSession |-> Undef]

NoRequest == [method |-> "none", uri |-> <<>>, name |-> "", args |-> <<>>]
NoOutcome == [kind |-> "none"]

(***************************************************************************)
(* HTTP calls and responses.                                               *)
(***************************************************************************)
NoBody == [none |-> TRUE]

\* one call on axiosInstance: the verb, the route with its interpolated
\* values (args: JavaScript values, digits: characters captured by a regex)
Call(verb, route, args, body) ==
  [verb |-> verb, route |-> route, args |-> args, digits |-> <<>>, body |-> body]

CallDigits(verb, route, digits) ==
  [verb |-> verb, route |-> route, args |-> <<>>, digits |-> digits,
   body |-> NoBody]

\* this.axiosInstance.post("/api/session", {username, password})
LoginCall ==
  Call("POST", "/api/session", <<>>,
       [username |-> METABASE_USERNAME, password |-> METABASE_PASSWORD])

IsLogin(c) == c.verb = "POST" /\ c.route = "/api/session"

\* a list that may be missing from a response body
Absent == [present |-> FALSE, items |-> <<>>]
Present(items) == [present |-> TRUE, items |-> items]

\* a dashcard as the service returns it
Dashcard(id, card, row, col, sx, sy, series, vs, pm) ==
  [id |-> id, card_id |-> card, row |-> row, col |-> col, size_x |-> sx,
   size_y |-> sy, series |-> series, visualization_settings |-> vs,
   parameter_mappings |-> pm]

DC1 == Dashcard(Num(11), Num(101), Num(0), Num(0), Num(4), Num(4),
                Arr(1), Obj(1), Arr(2))
DC2 == Dashcard(Num(12), Null, Num(4), Num(0), Num(6), Num(3),
                Undef, Undef, Undef)

\* a response body (response.data)
Data(truthy, id, name, engine, link, dashcards, cards, list, tables) ==
  [truthy |-> truthy, id |-> id, name |-> name, engine |-> engine,
   link |-> link, dashcards |-> dashcards, cards |-> cards, list |-> list,
   tables |-> tables]

PlainData(id) ==
  Data(TRUE, id, Str("n"), Undef, Undef, Absent, Absent, <<>>, Absent)

EmptyData ==
  Data(FALSE, Undef, Undef, Undef, Undef, Absent, Absent, <<>>, Absent)

Field1 == [id |-> Num(1), name |-> Str("f"), database_type |-> Str("int4"),
           semantic_type |-> Str("PK")]
Table1 == [id |-> Num(1), name |-> Str("t"), fields |-> Present(<<Field1>>),
           rows |-> Num(10)]
Table2 == [id |-> Num(2), name |-> Str("u"), fields |-> Absent,
           rows |-> Num(0)]

\* the bodies the service may answer a successful call with
Responses(c) ==
  CASE c.route = "/api/database/{}" ->
         {[PlainData(Num(3)) EXCEPT !.engine = e] :
            e \in {Str("mongo"), Str("postgres")}}
    [] c.route = "/api/dashboard/{}" /\ c.verb = "GET" ->
         {[PlainData(Num(5)) EXCEPT !.dashcards = dl] :
            dl \in {Absent, Present(<<DC1>>), Present(<<DC1, DC2>>)}}
    [] c.route = "/api/dashboard" /\ c.verb = "GET" ->
         {[PlainData(Undef) EXCEPT !.list = l] :
            l \in {<<>>, <<[id |-> Num(5), name |-> Str("a")],
                          [id |-> Num(2), name |-> Str("b")]>>}}
    [] c.route = "/api/database/{}/metadata" ->
         {[PlainData(Num(3)) EXCEPT !.tables = tl] :
            tl \in {Absent, Present(<<Table1, Table2>>)}}
    [] c.route \in {"/api/card", "/api/dashboard"} /\ c.verb = "POST" ->
         {[PlainData(Num(9)) EXCEPT !.link = l] : l \in {Undef, Str("x")}}
    [] c.verb \in {"PUT", "DELETE"} -> {PlainData(Num(5)), EmptyData}
    [] OTHER -> {PlainData(Num(5))}

\* an AxiosError: error.message and error.response?.data?.message
AxiosError(message, responseMessage) ==
  [axios |-> TRUE, message |-> message, responseMessage |-> responseMessage]

Failures ==
  {AxiosError(Str("Network Error"), Undef),
   AxiosError(Str("Request failed with status code 500"), Str("boom"))}

\* `Metabase API error: ${error.response?.data?.message || error.message}`
ApiErrorText(e) ==
  Template("Metabase API error: ", OrElse(e.responseMessage, e.message))

(***************************************************************************)
(* What a stretch of handler code ends with: an await on an HTTP call,     *)
(* a returned reply, or a thrown error.                                     *)
(***************************************************************************)
Await(call) == [act |-> "await", call |-> call]
Return(reply) == [act |-> "return", reply |-> reply]
Throw(err) == [act |-> "throw", error |-> err]

(***************************************************************************)
(* Resource URIs, as sequences of characters, and the three regular        *)
(* expressions /^metabase:\/\/<kind>\/(\d+)$/ of the read handler.         *)
(***************************************************************************)
Digits == {"0", "1", "2", "3", "4", "5", "6", "7", "8", "9"}

SchemeChars == <<"m", "e", "t", "a", "b", "a", "s", "e", ":", "/", "/">>
DashboardChars == <<"d", "a", "s", "h", "b", "o", "a", "r", "d">>
CardChars == <<"c", "a", "r", "d">>
DatabaseChars == <<"d", "a", "t", "a", "b", "a", "s", "e">>
WidgetChars == <<"w", "i", "d", "g", "e", "t">>

KindChars(kind) ==
  CASE kind = "dashboard" -> DashboardChars
    [] kind = "card" -> CardChars
    [] kind = "database" -> DatabaseChars
    [] OTHER -> WidgetChars

\* the string `metabase://${kind}/${id}`
MetabaseUri(kind, id) == SchemeChars \o KindChars(kind) \o <<"/">> \o id

\* the part of uri after the literal prefix of the pattern for kind
UriTail(uri, kind) ==
  SubSeq(uri, Len(SchemeChars) + Len(KindChars(kind)) + 2, Len(uri))

\* uri.match(/^metabase:\/\/<kind>\/(\d+)$/) is not null
UriMatch(uri, kind) ==
  LET prefix == SchemeChars \o KindChars(kind) \o <<"/">>
  IN /\ Len(uri) > Len(prefix)
     /\ SubSeq(uri, 1, Len(prefix)) = prefix
     /\ \A i \in (Len(prefix) + 1)..Len(uri) : uri[i] \in Digits

\* match[1], the captured digits
UriId(uri, kind) == UriTail(uri, kind)

ResourceKinds == <<"dashboard", "card", "database">>

\* the URIs a client may ask for
IdStrings == {<<"4", "2">>, <<"7">>, <<>>, <<"4", "x">>, <<"5", "\n">>}

TestUris ==
  {MetabaseUri(k, id) : k \in {"dashboard", "card", "database", "widget"},
                        id \in IdStrings}
  \cup {<<" ">> \o MetabaseUri("card", <<"7">>),
        MetabaseUri("dashboard", <<"4", "2", "/", "1">>),
        <<"d", "a", "s", "h", "b", "o", "a", "r", "d", "/", "4", "2">>}

(***************************************************************************)
(* The resource handlers (setupResourceHandlers).                          *)
(***************************************************************************)
\* ListResourcesRequestSchema handler, the code in its try block
ListResourcesBody_mut(n, d) ==
  IF n = 0
  THEN Await(Call("GET", "/api/dashboard", <<>>, NoBody))
  ELSE Return([kind |-> "reply",
               resources |->
                 [i \in 1..Len(d.list) |->
                    LET b == d.list[Len(d.list) + 1 - i]
                    IN [uri |-> Template("metabase://dashboard/", b.id),
                        mimeType |-> "application/json",
                        name |-> b.name,
                        description |->
                          Template("Metabase dashboard: ", b.name)]]])

ListResourcesBody(n, d) ==
  IF n = 0
  THEN Await(Call("GET", "/api/dashboard", <<>>, NoBody))
  ELSE Return([kind |-> "reply",
               resources |->
                 [i \in 1..Len(d.list) |->
                    [uri |-> Template("metabase://dashboard/", d.list[i].id),
                     mimeType |-> "application/json",
                     name |-> d.list[i].name,
                     description |->
                       Template("Metabase dashboard: ", d.list[i].name)]]])

\* ListResourcesRequestSchema handler, its catch clause: every error
\* becomes an internal error
ListResourcesCatch(e) ==
  McpError(InternalError, "Failed to list Metabase resources")

\* ListResourceTemplatesRequestSchema handler
ListResourceTemplates ==
  [kind |-> "reply",
   resourceTemplates |->
     <<[uriTemplate |-> "metabase://dashboard/{id}", name |-> "Dashboard by ID",
        mimeType |-> "application/json",
        description |-> "Get a Metabase dashboard by its ID"],
       [uriTemplate |-> "metabase://card/{id}", name |-> "Card by ID",
        mimeType |-> "application/json",
        description |-> "Get a Metabase question/card by its ID"],
       [uriTemplate |-> "metabase://database/{id}", name |-> "Database by ID",
        mimeType |-> "application/json",
        description |-> "Get a Metabase database by its ID"]>>]

\* the reply of a successful read
ReadReply_mut(uri, d) ==
  [kind |-> "reply",
   contents |-> <<[uri |-> SchemeChars, mimeType |-> "application/json",
                   text |-> JSONStringify(d)]>>]

ReadReply(uri, d) ==
  [kind |-> "reply",
   contents |-> <<[uri |-> uri, mimeType |-> "application/json",
                   text |-> JSONStringify(d)]>>]

\* ReadResourceRequestSchema handler, the code in its try block: the three
\* patterns are tried in order
ReadResourceBody(uri, n, d) ==
  IF n = 0
  THEN IF UriMatch(uri, "dashboard")
       THEN Await(CallDigits("GET", "/api/dashboard/{}",
                             UriId(uri, "dashboard")))
       ELSE IF UriMatch(uri, "card")
       THEN Await(CallDigits("GET", "/api/card/{}", UriId(uri, "card")))
       ELSE IF UriMatch(uri, "database")
       THEN Await(CallDigits("GET", "/api/database/{}",
                             UriId(uri, "database")))
       ELSE Throw(McpError(InvalidRequest,
                           Template("Invalid URI format: ", uri)))
  ELSE Return(ReadReply(uri, d))

\* ReadResourceRequestSchema handler, its catch clause: an AxiosError
\* becomes an internal error, anything else is rethrown
ReadResourceCatch(e) ==
  IF e.axios THEN McpError(InternalError, ApiErrorText(e)) ELSE e.error

(***************************************************************************)
(* The tool catalog (ListToolsRequestSchema handler): the 19 tool names    *)
(* and, per tool, the `required` list of its inputSchema.                  *)
(***************************************************************************)
ToolNames ==
  <<"list_dashboards", "list_cards", "list_databases", "list_collections",
    "get_database", "get_database_metadata", "execute_card",
    "get_dashboard_cards", "execute_query", "create_card", "update_card",
    "delete_card", "create_dashboard", "update_dashboard", "delete_dashboard",
    "add_card_to_dashboard", "remove_card_from_dashboard",
    "update_dashboard_card", "create_dashboard_only_card">>

ToolNameSet == {ToolNames[i] : i \in 1..Len(ToolNames)}

Required(name) ==
  CASE name \in {"get_database", "get_database_metadata"} -> {"database_id"}
    [] name \in {"execute_card", "update_card", "delete_card"} -> {"card_id"}
    [] name \in {"get_dashboard_cards", "update_dashboard",
                 "delete_dashboard"} -> {"dashboard_id"}
    [] name = "execute_query" -> {"database_id", "query"}
    [] name = "create_card" ->
         {"name", "dataset_query", "display", "visualization_settings"}
    [] name = "create_dashboard" -> {"name"}
    [] name = "add_card_to_dashboard" -> {"dashboard_id", "card_id"}
    [] name \in {"remove_card_from_dashboard", "update_dashboard_card"} ->
         {"dashboard_id", "dashcard_id"}
    [] name = "create_dashboard_only_card" ->
         {"dashboard_id", "name", "dataset_query", "display",
          "visualization_settings"}
    [] OTHER -> {}

\* ListToolsRequestSchema handler
ListTools_mut ==
  [kind |-> "reply",
   tools |-> [i \in 1..(Len(ToolNames) - 1) |->
                [name |-> ToolNames[i], required |-> Required(ToolNames[i])]]]

ListTools ==
  [kind |-> "reply",
   tools |-> [i \in 1..Len(ToolNames) |->
                [name |-> ToolNames[i], required |-> Required(ToolNames[i])]]]

(***************************************************************************)
(* Tool arguments: request.params.arguments, a function from argument      *)
(* names to JavaScript values, Undef for a key that is not there.          *)
(***************************************************************************)
\* the property names the tools' input schemas declare
SchemaProperties ==
  {"database_id", "card_id", "dashboard_id", "dashcard_id", "query",
   "collection", "native_parameters", "parameters", "f", "name",
   "dataset_query", "display", "visualization_settings", "collection_id",
   "description", "hard_delete", "row", "col", "size_x", "size_y",
   "parameter_mappings", "archived", "dashboard_tab_id"}

\* a key no schema declares: the handlers do not check arguments against
\* the schemas
UndeclaredKeys == {"foo"}

ArgNames == SchemaProperties \cup UndeclaredKeys

NoArgs == [k \in ArgNames |-> Undef]

\* Object.keys of the arguments without the keys in `taken`
RestKeys(a, taken) == {k \in ArgNames \ taken : a[k] # Undef}

\* the object holding the rest of a destructuring, `{x, ...rest} = a`
Rest(a, taken) == [k \in RestKeys(a, taken) |-> a[k]]

\* a destructuring default, `{x = dflt} = a`
Default(v, dflt) == IF v = Undef THEN dflt ELSE v

DigitText == <<"0", "1", "2", "3", "4", "5", "6", "7", "8", "9">>

\* the decimal text of an integer
RECURSIVE NumberText(_)
NumberText(k) ==
  IF k < 0 THEN "-" \o NumberText(0 - k)
  ELSE IF k < 10 THEN DigitText[k + 1]
  ELSE NumberText(k \div 10) \o DigitText[(k % 10) + 1]

\* Array.prototype.join of k plain objects
RECURSIVE ObjectsText(_)
ObjectsText(k) ==
  IF k = 0 THEN ""
  ELSE IF k = 1 THEN "[object Object]"
  ELSE ObjectsText(k - 1) \o ",[object Object]"

\* String(v)
JSString(v) ==
  CASE v.t = "string" -> v
    [] v.t = "undefined" -> Str("undefined")
    [] v.t = "null" -> Str("null")
    [] v.t = "number" -> Str(NumberText(v.n))
    [] v.t = "boolean" -> Str(IF v.n = 1 THEN "true" ELSE "false")
    [] v.t = "object" -> Str("[object Object]")
    [] OTHER -> Str(ObjectsText(v.n))

\* the reply of a tool: one text item
TextReply(text) ==
  [kind |-> "reply", content |-> <<[type |-> "text", text |-> text]>>,
   isError |-> FALSE]

ErrorReply(text) ==
  [kind |-> "reply", content |-> <<[type |-> "text", text |-> text]>>,
   isError |-> TRUE]

Invalid(message) == Throw(McpError(InvalidParams, message))

(***************************************************************************)
(* The tools, one operator per case of the switch in the                   *)
(* CallToolRequestSchema handler.  a: the arguments; n: how many HTTP      *)
(* calls of the case have returned; d: the body of the response that just  *)
(* arrived.                                                                *)
(***************************************************************************)
list_dashboards(a, n, d) ==
  IF n = 0
  THEN Await(Call("GET", "/api/dashboard", <<>>, NoBody))
  ELSE Return(TextReply(JSONStringify(d)))

list_cards(a, n, d) ==
  IF n = 0
  THEN Await(Call("GET", "/api/card?f={}", <<OrElse(a.f, Str("all"))>>,
                  NoBody))
  ELSE Return(TextReply(JSONStringify(d)))

list_databases(a, n, d) ==
  IF n = 0
  THEN Await(Call("GET", "/api/database", <<>>, NoBody))
  ELSE Return(TextReply(JSONStringify(d)))

list_collections(a, n, d) ==
  IF n = 0
  THEN Await(Call("GET", "/api/collection", <<>>, NoBody))
  ELSE Return(TextReply(JSONStringify(d)))

get_database(a, n, d) ==
  IF n = 0
  THEN IF ~Truthy(a.database_id)
       THEN Invalid("Database ID is required")
       ELSE Await(Call("GET", "/api/database/{}", <<a.database_id>>, NoBody))
  ELSE Return(TextReply(JSONStringify(d)))

\* the reduction of a metadata response to ids, names and native types
FilteredFields(fl) ==
  IF fl.present
  THEN [i \in 1..Len(fl.items) |->
          [id |-> fl.items[i].id, name |-> fl.items[i].name,
           database_type |-> fl.items[i].database_type]]
  ELSE <<>>

FilteredData(d) ==
  [id |-> d.id, name |-> d.name,
   tables |-> IF d.tables.present
              THEN [i \in 1..Len(d.tables.items) |->
                      [id |-> d.tables.items[i].id,
                       name |-> d.tables.items[i].name,
                       fields |-> FilteredFields(d.tables.items[i].fields)]]
              ELSE <<>>]

get_database_metadata(a, n, d) ==
  IF n = 0
  THEN IF ~Truthy(a.database_id)
       THEN Invalid("Database ID is required")
       ELSE Await(Call("GET", "/api/database/{}/metadata", <<a.database_id>>,
                       NoBody))
  ELSE Return(TextReply(JSONStringify(FilteredData(d))))

execute_card(a, n, d) ==
  IF n = 0
  THEN IF ~Truthy(a.card_id)
       THEN Invalid("Card ID is required")
       ELSE Await(Call("POST", "/api/card/{}/query", <<a.card_id>>,
                       [parameters |-> OrElse(a.parameters, Obj(0))]))
  ELSE Return(TextReply(JSONStringify(d)))

get_dashboard_cards(a, n, d) ==
  IF n = 0
  THEN IF ~Truthy(a.dashboard_id)
       THEN Invalid("Dashboard ID is required")
       ELSE Await(Call("GET", "/api/dashboard/{}", <<a.dashboard_id>>,
                       NoBody))
  ELSE Return(TextReply(JSONStringify(
         IF d.dashcards.present THEN d.dashcards.items
         ELSE IF d.cards.present THEN d.cards.items ELSE <<>>)))

\* the queryData of execute_query, for the document-store engine and for
\* every other engine
MongoQueryData_mut(a) ==
  [type |-> "native",
   native |-> [hasCollection |-> FALSE, collection |-> Undef,
               query |-> JSString(a.query), template_tags |-> Obj(0)],
   parameters |-> OrElse(a.native_parameters, Arr(0)),
   database |-> a.database_id]

MongoQueryData(a) ==
  [type |-> "native",
   native |-> [hasCollection |-> TRUE, collection |-> a.collection,
               query |-> JSString(a.query), template_tags |-> Obj(0)],
   parameters |-> OrElse(a.native_parameters, Arr(0)),
   database |-> a.database_id]

SqlQueryData_mut(a) ==
  [type |-> "native",
   native |-> [hasCollection |-> a.collection # Undef,
               collection |-> a.collection,
               query |-> a.query, template_tags |-> Obj(0)],
   parameters |-> OrElse(a.native_parameters, Arr(0)),
   database |-> a.database_id]

SqlQueryData(a) ==
  [type |-> "native",
   native |-> [hasCollection |-> FALSE, collection |-> Undef,
               query |-> a.query, template_tags |-> Obj(0)],
   parameters |-> OrElse(a.native_parameters, Arr(0)),
   database |-> a.database_id]

execute_query_mut(a, n, d) ==
  CASE n = 0 ->
         IF ~Truthy(a.database_id)
         THEN Invalid("Database ID is required")
         ELSE IF ~Truthy(a.query)
         THEN Invalid("Query is required")
         ELSE Await(Call("GET", "/api/database/{}", <<a.database_id>>,
                         NoBody))
    [] n = 1 ->
         IF d.engine = Str("mongo")
         THEN Await(Call("POST", "/api/dataset", <<>>, MongoQueryData(a)))
         ELSE Await(Call("POST", "/api/dataset", <<>>, SqlQueryData(a)))
    [] n = 2 ->
         IF d.engine = Str("mongo") /\ ~Truthy(a.collection)
         THEN Invalid("Collection name is required for MongoDB queries")
         ELSE Return(TextReply(JSONStringify(d)))
    [] OTHER -> Return(TextReply(JSONStringify(d)))

execute_query(a, n, d) ==
  CASE n = 0 ->
         IF ~Truthy(a.database_id)
         THEN Invalid("Database ID is required")
         ELSE IF ~Truthy(a.query)
         THEN Invalid("Query is required")
         ELSE Await(Call("GET", "/api/database/{}", <<a.database_id>>,
                         NoBody))
    [] n = 1 ->
         IF d.engine = Str("mongo")
         THEN IF ~Truthy(a.collection)
              THEN Invalid("Collection name is required for MongoDB queries")
              ELSE Await(Call("POST", "/api/dataset", <<>>,
                              MongoQueryData(a)))
         ELSE Await(Call("POST", "/api/dataset", <<>>, SqlQueryData(a)))
    [] OTHER -> Return(TextReply(JSONStringify(d)))

\* a request body holding the required fields and those optional fields
\* that were supplied
BodyOf(a, always, optional) ==
  [k \in always \cup {o \in optional : a[o] # Undef} |-> a[k]]

\* {...response.data, _link: link, _message: `${text}${link}`}
WithLink_mut(d, link, text) ==
  LET own == IF d.link = Undef THEN link ELSE d.link
  IN [data |-> [d EXCEPT !.link = own], _link |-> own,
      _message |-> Template(text, link)]

WithLink(d, link, text) ==
  [data |-> [d EXCEPT !.link = link], _link |-> link,
   _message |-> Template(text, link)]

create_card(a, n, d) ==
  IF n = 0
  THEN IF \/ ~Truthy(a.name) \/ ~Truthy(a.dataset_query)
          \/ ~Truthy(a.display) \/ ~Truthy(a.visualization_settings)
       THEN Invalid("Missing required fields for create_card: name, dataset_query, display, visualization_settings")
       ELSE Await(Call("POST", "/api/card", <<>>,
                       BodyOf(a, {"name", "dataset_query", "display",
                                  "visualization_settings"},
                              {"collection_id", "description"})))
  ELSE Return(TextReply(JSONStringify(
         WithLink(d, Template(METABASE_URL, Template("/question/", d.id)),
                  "Card created successfully! View it at: "))))

update_card(a, n, d) ==
  IF n = 0
  THEN IF ~Truthy(a.card_id)
       THEN Invalid("Card ID is required for update_card")
       ELSE IF RestKeys(a, {"card_id"}) = {}
       THEN Invalid("No fields provided for update_card")
       ELSE Await(Call("PUT", "/api/card/{}", <<a.card_id>>,
                       Rest(a, {"card_id"})))
  ELSE Return(TextReply(JSONStringify(d)))

\* the text of an archive confirmation: with the response body when there
\* is one
ArchivedText(what, id, d) ==
  IF d.truthy
  THEN [what |-> what, id |-> id, text |-> " archived. Details: ",
        details |-> JSONStringify(d)]
  ELSE [what |-> what, id |-> id, text |-> " archived.",
        details |-> JSONStringify(EmptyData)]

DeletedText(what, id) ==
  [what |-> what, id |-> id, text |-> " permanently deleted."]

delete_card_mut(a, n, d) ==
  IF n = 0
  THEN IF ~Truthy(a.card_id)
       THEN Invalid("Card ID is required for delete_card")
       ELSE IF a.hard_delete # Undef
       THEN Await(Call("DELETE", "/api/card/{}", <<a.card_id>>, NoBody))
       ELSE Await(Call("PUT", "/api/card/{}", <<a.card_id>>,
                       [archived |-> Bool(TRUE)]))
  ELSE IF a.hard_delete # Undef
       THEN Return(TextReply(DeletedText("Card ", a.card_id)))
       ELSE Return(TextReply(ArchivedText("Card ", a.card_id, d)))

delete_card(a, n, d) ==
  IF n = 0
  THEN IF ~Truthy(a.card_id)
       THEN Invalid("Card ID is required for delete_card")
       ELSE IF Truthy(Default(a.hard_delete, Bool(FALSE)))
       THEN Await(Call("DELETE", "/api/card/{}", <<a.card_id>>, NoBody))
       ELSE Await(Call("PUT", "/api/card/{}", <<a.card_id>>,
                       [archived |-> Bool(TRUE)]))
  ELSE IF Truthy(Default(a.hard_delete, Bool(FALSE)))
       THEN Return(TextReply(DeletedText("Card ", a.card_id)))
       ELSE Return(TextReply(ArchivedText("Card ", a.card_id, d)))

create_dashboard(a, n, d) ==
  IF n = 0
  THEN IF ~Truthy(a.name)
       THEN Invalid("Missing required field for create_dashboard: name")
       ELSE Await(Call("POST", "/api/dashboard", <<>>,
                       BodyOf(a, {"name"},
                              {"description", "parameters",
                               "collection_id"})))
  ELSE Return(TextReply(JSONStringify(
         WithLink(d, Template(METABASE_URL, Template("/dashboard/", d.id)),
                  "Dashboard created successfully! View it at: "))))

update_dashboard(a, n, d) ==
  IF n = 0
  THEN IF ~Truthy(a.dashboard_id)
       THEN Invalid("Dashboard ID is required for update_dashboard")
       ELSE IF RestKeys(a, {"dashboard_id"}) = {}
       THEN Invalid("No fields provided for update_dashboard")
       ELSE Await(Call("PUT", "/api/dashboard/{}", <<a.dashboard_id>>,
                       Rest(a, {"dashboard_id"})))
  ELSE Return(TextReply(JSONStringify(d)))

delete_dashboard(a, n, d) ==
  IF n = 0
  THEN IF ~Truthy(a.dashboard_id)
       THEN Invalid("Dashboard ID is required for delete_dashboard")
       ELSE IF Truthy(Default(a.hard_delete, Bool(FALSE)))
       THEN Await(Call("DELETE", "/api/dashboard/{}", <<a.dashboard_id>>,
                       NoBody))
       ELSE Await(Call("PUT", "/api/dashboard/{}", <<a.dashboard_id>>,
                       [archived |-> Bool(TRUE)]))
  ELSE IF Truthy(Default(a.hard_delete, Bool(FALSE)))
       THEN Return(TextReply(DeletedText("Dashboard ", a.dashboard_id)))
       ELSE Return(TextReply(ArchivedText("Dashboard ", a.dashboard_id, d)))

\* response.data.dashcards || []
ExistingCards(d) == IF d.dashcards.present THEN d.dashcards.items ELSE <<>>

\* an existing dashcard in the shape the PUT needs
Formatted(dc) ==
  [id |-> dc.id, card_id |-> dc.card_id, row |-> dc.row, col |-> dc.col,
   size_x |-> dc.size_x, size_y |-> dc.size_y,
   series |-> OrElse(dc.series, Arr(0)),
   visualization_settings |-> OrElse(dc.visualization_settings, Obj(0)),
   parameter_mappings |-> OrElse(dc.parameter_mappings, Arr(0))]

ExistingCardsFormatted(d) ==
  [i \in 1..Len(ExistingCards(d)) |-> Formatted(ExistingCards(d)[i])]

\* the entry add_card_to_dashboard appends
NewCard_mut(a) ==
  [id |-> Num(-1), card_id |-> a.dashboard_id,
   row |-> Default(a.row, Num(0)), col |-> Default(a.col, Num(0)),
   size_x |-> Default(a.size_x, Num(4)),
   size_y |-> Default(a.size_y, Num(4))]

NewCard(a) ==
  [id |-> Num(-1), card_id |-> a.card_id,
   row |-> Default(a.row, Num(0)), col |-> Default(a.col, Num(0)),
   size_x |-> Default(a.size_x, Num(4)),
   size_y |-> Default(a.size_y, Num(4))]

add_card_to_dashboard_mut(a, n, d) ==
  CASE n = 0 ->
         IF ~Truthy(a.dashboard_id)
         THEN Invalid("Dashboard ID is required for add_card_to_dashboard")
         ELSE IF ~Truthy(a.card_id)
         THEN Invalid("Card ID is required for add_card_to_dashboard")
         ELSE Await(Call("GET", "/api/dashboard/{}", <<a.dashboard_id>>,
                         NoBody))
    [] n = 1 ->
         LET last(s) == calls[s][Len(calls[s])]
             PendingOf(s) ==
               IF /\ pc[s] = "http"
                  /\ last(s).route = "/api/dashboard/{}/cards"
                  /\ last(s).args = <<a.dashboard_id>>
               THEN <<last(s).body.cards[Len(last(s).body.cards)]>>
               ELSE <<>>
             RECURSIVE Pending(_)
             Pending(k) == IF k = 0 THEN <<>>
                           ELSE Pending(k - 1) \o PendingOf(k)
         IN Await(Call("PUT", "/api/dashboard/{}/cards", <<a.dashboard_id>>,
                       [cards |-> ExistingCardsFormatted(d)
                                    \o Pending(MaxInFlight)
                                    \o <<NewCard(a)>>]))
    [] OTHER -> Return(TextReply(JSONStringify(d)))

add_card_to_dashboard(a, n, d) ==
  CASE n = 0 ->
         IF ~Truthy(a.dashboard_id)
         THEN Invalid("Dashboard ID is required for add_card_to_dashboard")
         ELSE IF ~Truthy(a.card_id)
         THEN Invalid("Card ID is required for add_card_to_dashboard")
         ELSE Await(Call("GET", "/api/dashboard/{}", <<a.dashboard_id>>,
                         NoBody))
    [] n = 1 ->
         Await(Call("PUT", "/api/dashboard/{}/cards", <<a.dashboard_id>>,
                    [cards |-> ExistingCardsFormatted(d) \o <<NewCard(a)>>]))
    [] OTHER -> Return(TextReply(JSONStringify(d)))

remove_card_from_dashboard(a, n, d) ==
  IF n = 0
  THEN IF ~Truthy(a.dashboard_id)
       THEN Invalid("Dashboard ID is required for remove_card_from_dashboard")
       ELSE IF ~Truthy(a.dashcard_id)
       THEN Invalid("Dashcard ID is required for remove_card_from_dashboard")
       ELSE Await(Call("DELETE", "/api/dashboard/{}/cards/{}",
                       <<a.dashboard_id, a.dashcard_id>>, NoBody))
  ELSE Return(TextReply([what |-> "Card ", id |-> a.dashcard_id,
                         text |-> " removed from dashboard ",
                         dashboard |-> a.dashboard_id]))

\* a supplied value, or the old one when none was supplied
Updated(new, old) == IF new # Undef THEN new ELSE old

UpdatedCard_mut(a, dc) ==
  [id |-> dc.id, card_id |-> dc.card_id,
   row |-> Updated(a.row, dc.row), col |-> Updated(a.col, dc.col),
   size_x |-> Updated(a.size_x, dc.size_x),
   size_y |-> Updated(a.size_y, dc.size_y),
   series |-> OrElse(dc.series, Arr(0)),
   visualization_settings |-> OrElse(dc.visualization_settings, Obj(0)),
   parameter_mappings |->
     IF a.parameter_mappings # Undef THEN a.parameter_mappings
     ELSE OrElse(dc.parameter_mappings, Arr(0))]

\* the entry update_dashboard_card writes for dashcard dc
UpdatedCard(a, dc) ==
  IF dc.id = a.dashcard_id
  THEN [id |-> dc.id, card_id |-> dc.card_id,
        row |-> Updated(a.row, dc.row), col |-> Updated(a.col, dc.col),
        size_x |-> Updated(a.size_x, dc.size_x),
        size_y |-> Updated(a.size_y, dc.size_y),
        series |-> OrElse(dc.series, Arr(0)),
        visualization_settings |-> OrElse(dc.visualization_settings, Obj(0)),
        parameter_mappings |->
          IF a.parameter_mappings # Undef THEN a.parameter_mappings
          ELSE OrElse(dc.parameter_mappings, Arr(0))]
  ELSE Formatted(dc)

update_dashboard_card_mut(a, n, d) ==
  CASE n = 0 ->
         IF ~Truthy(a.dashboard_id)
         THEN Invalid("Dashboard ID is required for update_dashboard_card")
         ELSE IF ~Truthy(a.dashcard_id)
         THEN Invalid("Dashcard ID is required for update_dashboard_card")
         ELSE IF /\ RestKeys(a, {"dashboard_id", "dashcard_id",
                                 "parameter_mappings"}) = {}
                 /\ a.parameter_mappings = Undef
         THEN Invalid("No fields provided for update_dashboard_card")
         ELSE Await(Call("GET", "/api/dashboard/{}", <<a.dashboard_id>>,
                         NoBody))
    [] n = 1 ->
         IF \A i \in 1..Len(ExistingCards(d)) :
              ExistingCards(d)[i].id # a.dashcard_id
         THEN Invalid("Dashcard not found")
         ELSE Await(Call("PUT", "/api/dashboard/{}/cards",
                         <<a.dashboard_id>>,
                         [cards |->
                            [i \in 1..Len(ExistingCards(d)) |->
                               UpdatedCard(a, ExistingCards(d)[i])]]))
    [] OTHER -> Return(TextReply(JSONStringify(d)))

update_dashboard_card(a, n, d) ==
  CASE n = 0 ->
         IF ~Truthy(a.dashboard_id)
         THEN Invalid("Dashboard ID is required for update_dashboard_card")
         ELSE IF ~Truthy(a.dashcard_id)
         THEN Invalid("Dashcard ID is required for update_dashboard_card")
         ELSE IF /\ RestKeys(a, {"dashboard_id", "dashcard_id",
                                 "parameter_mappings"}) = {}
                 /\ a.parameter_mappings = Undef
         THEN Invalid("No fields provided for update_dashboard_card")
         ELSE Await(Call("GET", "/api/dashboard/{}", <<a.dashboard_id>>,
                         NoBody))
    [] n = 1 ->
         Await(Call("PUT", "/api/dashboard/{}/cards", <<a.dashboard_id>>,
                    [cards |->
                       [i \in 1..Len(ExistingCards(d)) |->
                          UpdatedCard(a, ExistingCards(d)[i])]]))
    [] OTHER -> Return(TextReply(JSONStringify(d)))

\* the synthetic dashcard of a dashboard-only card
VirtualCard(a) ==
  [id |-> Num(-1), card_id |-> Null,
   row |-> Default(a.row, Num(0)), col |-> Default(a.col, Num(0)),
   size_x |-> Default(a.size_x, Num(4)),
   size_y |-> Default(a.size_y, Num(4)),
   series |-> Arr(0), parameter_mappings |-> Arr(0),
   visualization_settings |->
     [spread |-> a.visualization_settings,
      virtual_card |->
        [name |-> a.name, display |-> a.display,
         visualization_settings |-> a.visualization_settings,
         dataset_query |-> a.dataset_query]]]

create_dashboard_only_card(a, n, d) ==
  CASE n = 0 ->
         IF ~Truthy(a.dashboard_id)
         THEN Invalid("Dashboard ID is required for create_dashboard_only_card")
         ELSE IF \/ ~Truthy(a.name) \/ ~Truthy(a.dataset_query)
                 \/ ~Truthy(a.display) \/ ~Truthy(a.visualization_settings)
         THEN Invalid("Missing required fields: name, dataset_query, display, visualization_settings")
         ELSE Await(Call("GET", "/api/dashboard/{}", <<a.dashboard_id>>,
                         NoBody))
    [] n = 1 ->
         Await(Call("PUT", "/api/dashboard/{}/cards", <<a.dashboard_id>>,
                    [cards |->
                       ExistingCardsFormatted(d) \o <<VirtualCard(a)>>]))
    [] OTHER -> Return(TextReply(JSONStringify(d)))

\* the default case of the switch
UnknownTool(name) == Return(ErrorReply(Template("Unknown tool: ", name)))

\* CallToolRequestSchema handler, the switch in its try block
CallToolBody(name, a, n, d) ==
  CASE name = "list_dashboards" -> list_dashboards(a, n, d)
    [] name = "list_cards" -> list_cards(a, n, d)
    [] name = "list_databases" -> list_databases(a, n, d)
    [] name = "list_collections" -> list_collections(a, n, d)
    [] name = "get_database" -> get_database(a, n, d)
    [] name = "get_database_metadata" -> get_database_metadata(a, n, d)
    [] name = "execute_card" -> execute_card(a, n, d)
    [] name = "get_dashboard_cards" -> get_dashboard_cards(a, n, d)
    [] name = "execute_query" -> execute_query(a, n, d)
    [] name = "create_card" -> create_card(a, n, d)
    [] name = "update_card" -> update_card(a, n, d)
    [] name = "delete_card" -> delete_card(a, n, d)
    [] name = "create_dashboard" -> create_dashboard(a, n, d)
    [] name = "update_dashboard" -> update_dashboard(a, n, d)
    [] name = "delete_dashboard" -> delete_dashboard(a, n, d)
    [] name = "add_card_to_dashboard" -> add_card_to_dashboard(a, n, d)
    [] name = "remove_card_from_dashboard" ->
         remove_card_from_dashboard(a, n, d)
    [] name = "update_dashboard_card" -> update_dashboard_card(a, n, d)
    [] name = "create_dashboard_only_card" ->
         create_dashboard_only_card(a, n, d)
    [] OTHER -> UnknownTool(name)

\* CallToolRequestSchema handler, its catch clause: an AxiosError becomes
\* an in-band error reply, anything else is rethrown
CallToolCatch_mut(e) ==
  IF e.axios THEN McpError(InternalError, ApiErrorText(e)) ELSE e.error

CallToolCatch(e) ==
  IF e.axios THEN ErrorReply(ApiErrorText(e)) ELSE e.error

(***************************************************************************)
(* The requests a client may send.                                         *)
(***************************************************************************)
Sample ==
  [k \in ArgNames |->
     CASE k = "database_id" -> Num(3)
       [] k = "card_id" -> Num(7)
       [] k = "dashboard_id" -> Num(5)
       [] k = "dashcard_id" -> Num(11)
       [] k = "query" -> Str("SELECT 1")
       [] k = "collection" -> Str("events")
       [] k = "native_parameters" -> Arr(1)
       [] k = "parameters" -> Obj(1)
       [] k = "f" -> Str("mine")
       [] k = "name" -> Str("Sales")
       [] k = "dataset_query" -> Obj(2)
       [] k = "display" -> Str("table")
       [] k = "visualization_settings" -> Obj(3)
       [] k = "collection_id" -> Num(4)
       [] k = "description" -> Str("d")
       [] k = "hard_delete" -> Bool(TRUE)
       [] k = "row" -> Num(2)
       [] k = "col" -> Num(3)
       [] k = "size_x" -> Num(6)
       [] k = "size_y" -> Num(5)
       [] k = "archived" -> Bool(TRUE)
       [] k = "dashboard_tab_id" -> Num(1)
       [] k = "foo" -> Num(1)
       [] OTHER -> Arr(3)]

\* arguments with exactly the keys in `keys`
Pick(keys) == [k \in ArgNames |-> IF k \in keys THEN Sample[k] ELSE Undef]

ExtraArgs(name) ==
  CASE name = "list_cards" -> {Pick({"f"})}
    [] name = "get_database" -> {[NoArgs EXCEPT !.database_id = Num(0)]}
    [] name = "execute_card" -> {Pick({"card_id", "parameters"})}
    [] name = "execute_query" ->
         {Pick({"database_id", "query", "collection"}),
          Pick({"database_id", "query", "collection", "native_parameters"})}
         \cup {[Pick({"database_id", "query", "collection"})
                  EXCEPT !.query = q] :
                  q \in {Num(5), Obj(0), Arr(0), Arr(2), Bool(TRUE)}}
    [] name = "create_card" ->
         {Pick(Required(name) \cup {"collection_id"})}
    [] name = "update_card" ->
         {Pick({"card_id", "name"}), Pick({"card_id", "archived"}),
          Pick({"card_id", "foo"})}
    [] name = "delete_card" ->
         {Pick({"card_id", "hard_delete"}),
          [Pick({"card_id"}) EXCEPT !.hard_delete = Bool(FALSE)]}
    [] name = "create_dashboard" -> {Pick({"name", "description"})}
    [] name = "update_dashboard" ->
         {Pick({"dashboard_id", "description"}),
          Pick({"dashboard_id", "archived"})}
    [] name = "delete_dashboard" ->
         {Pick({"dashboard_id", "hard_delete"}),
          [Pick({"dashboard_id"}) EXCEPT !.hard_delete = Bool(FALSE)]}
    [] name = "add_card_to_dashboard" ->
         {Pick(Required(name) \cup {"row", "size_x"}),
          Pick(Required(name) \cup {"dashboard_tab_id"})}
    [] name = "update_dashboard_card" ->
         {Pick(Required(name) \cup {"row", "size_y"}),
          Pick(Required(name) \cup {"parameter_mappings"}),
          Pick(Required(name) \cup {"dashboard_tab_id"}),
          [Pick(Required(name) \cup {"col"}) EXCEPT !.dashcard_id = Num(99)],
          [Pick(Required(name) \cup {"row"}) EXCEPT !.dashcard_id = Num(12)]}
    [] name = "create_dashboard_only_card" ->
         {Pick(Required(name) \cup {"col", "size_y"})}
    [] OTHER -> {}

\* per tool: every required argument supplied, each one omitted in turn,
\* and the optional arguments that change what the tool does
ArgsFor(name) ==
  {Pick(Required(name))}
  \cup {Pick(Required(name) \ {k}) : k \in Required(name)}
  \cup ExtraArgs(name)

UnknownNames == {"bogus_tool", ""}

Request(method, uri, name, args) ==
  [method |-> method, uri |-> uri, name |-> name, args |-> args]

ToolRequests ==
  UNION {{Request("tools/call", <<>>, name, a) : a \in ArgsFor(name)} :
           name \in ToolNameSet}
  \cup {Request("tools/call", <<>>, name, NoArgs) : name \in UnknownNames}

ReadRequests == {Request("resources/read", u, "", NoArgs) : u \in TestUris}

StaticRequests ==
  {Request(m, <<>>, "", NoArgs) :
     m \in {"resources/list", "resources/list_templates", "tools/list"}}

AllRequests == ToolRequests \cup ReadRequests \cup StaticRequests

\* the requests of the runs in which requests overlap
OverlapRequests ==
  {Request("resources/read", MetabaseUri("card", <<"7">>), "", NoArgs),
   Request("tools/call", <<>>, "add_card_to_dashboard",
           Pick({"dashboard_id", "card_id"}))}

(***************************************************************************)
(* Startup: the module-level environment check and the constructor.        *)
(***************************************************************************)
\* the module-level check passes (its `if` condition is false)
EnvironmentOk_mut(e) ==
  Truthy(e.METABASE_URL)
  /\ (Truthy(e.METABASE_API_KEY) \/ Truthy(e.METABASE_USERNAME)
      \/ Truthy(e.METABASE_PASSWORD))

EnvironmentOk(e) ==
  ~(\/ ~Truthy(e.METABASE_URL)
    \/ (/\ ~Truthy(e.METABASE_API_KEY)
        /\ (~Truthy(e.METABASE_USERNAME) \/ ~Truthy(e.METABASE_PASSWORD))))

AuthMode_mut(e) ==
  IF Truthy(e.METABASE_USERNAME) /\ Truthy(e.METABASE_PASSWORD)
  THEN "password"
  ELSE IF Truthy(e.METABASE_API_KEY) THEN "api_key"
  ELSE "none"

\* the authentication branch the constructor takes
AuthMode(e) ==
  IF Truthy(e.METABASE_API_KEY) THEN "api_key"
  ELSE IF Truthy(e.METABASE_USERNAME) /\ Truthy(e.METABASE_PASSWORD)
  THEN "password"
  ELSE "none"

\* sessionToken when the constructor is done
ConstructorToken_mut(e) == Null

ConstructorToken(e) ==
  IF AuthMode(e) = "api_key" THEN ApiKeySentinel ELSE Null

\* axiosInstance.defaults.headers.common when the constructor is done
ConstructorHeaders(e) ==
  IF AuthMode(e) = "api_key"
  THEN [NoHeaders EXCEPT !.XApiKey = e.METABASE_API_KEY]
  ELSE NoHeaders

\* the handlers setupResourceHandlers and setupToolHandlers register
RegisteredHandlers ==
  {"resources/list", "resources/list_templates", "resources/read",
   "tools/list", "tools/call"}

Idle == [r \in Slots |-> "idle"]

Init ==
  /\ env \in Configs
  /\ phase = "load"
  /\ handlers = {}
  /\ sessionToken = Null
  /\ headers = NoHeaders
  /\ pc = Idle
  /\ req = [r \in Slots |-> NoRequest]
  /\ calls = [r \in Slots |-> <<>>]
  /\ responses = [r \in Slots |-> <<>>]
  /\ outcome = [r \in Slots |-> NoOutcome]
  /\ started = 0
  /\ loginCalls = 0
  /\ loginOks = 0
  /\ loginFails = 0

requestVars == <<pc, req, calls, responses, outcome, started, loginCalls,
                 loginOks, loginFails>>

\* lines 52-59: throw unless the configuration names one auth mode
EnvironmentCheck ==
  /\ phase = "load"
  /\ phase' = IF EnvironmentOk(env) THEN "checked" ELSE "fatal"
  /\ UNCHANGED <<env, handlers, sessionToken, headers, requestVars>>

\* new MetabaseServer(): set up authentication, then register the handlers
Constructor ==
  /\ phase = "checked"
  /\ IF AuthMode(env) = "none"
     THEN /\ phase' = "fatal"
          /\ UNCHANGED <<handlers, sessionToken, headers>>
     ELSE /\ phase' = "running"
          /\ sessionToken' = ConstructorToken(env)
          /\ headers' = ConstructorHeaders(env)
          /\ handlers' = RegisteredHandlers
  /\ UNCHANGED <<env, requestVars>>

(***************************************************************************)
(* The handlers, run from one await to the next.                           *)
(***************************************************************************)
CallsGetSessionToken_mut(e) ==
  ~Truthy(e.METABASE_API_KEY) /\ \A r \in Slots : calls[r] = <<>>

\* the handler calls getSessionToken: `if (!METABASE_API_KEY)`
CallsGetSessionToken(e) == ~Truthy(e.METABASE_API_KEY)

\* getSessionToken goes on to log in: `if (this.sessionToken)` is false
NeedsLogin_mut(tok) == TRUE

NeedsLogin_serial(tok) ==
  ~Truthy(tok) /\ \A r \in Slots : pc[r] # "login"

NeedsLogin(tok) == ~Truthy(tok)

\* sessionToken after a login call has failed: the catch clause assigns
\* nothing
TokenAfterFailure_mut(tok) == Str("")

TokenAfterFailure(tok) == tok

AuthFailed_mut ==
  ErrorReply(Template("Metabase API error: ",
                      Str("Failed to authenticate with Metabase")))

\* the error getSessionToken throws when the login call fails
AuthFailed == McpError(InternalError, "Failed to authenticate with Metabase")

\* an error that is not an AxiosError, as a catch clause sees it
NonAxios(err) == [axios |-> FALSE, error |-> err]

\* the code in the try block of the handler of request rq
Body(rq, n, d) ==
  CASE rq.method = "resources/list" -> ListResourcesBody(n, d)
    [] rq.method = "resources/read" -> ReadResourceBody(rq.uri, n, d)
    [] OTHER -> CallToolBody(rq.name, rq.args, n, d)

\* the catch clause of the handler of request rq
Catch(rq, e) ==
  CASE rq.method = "resources/list" -> ListResourcesCatch(e)
    [] rq.method = "resources/read" -> ReadResourceCatch(e)
    [] OTHER -> CallToolCatch(e)

\* the HTTP calls of the handler's try block that request r has issued
BodyCalls(r) == SelectSeq(calls[r], LAMBDA c : ~IsLogin(c))

\* request r runs its try block on from its n-th response, up to the next
\* await, return or throw
Continue(r, rq, n, d, cs) ==
  LET res == Body(rq, n, d)
  IN CASE res.act = "await" ->
            /\ pc' = [pc EXCEPT ![r] = "http"]
            /\ calls' = [calls EXCEPT ![r] = Append(cs, res.call)]
            /\ outcome' = [outcome EXCEPT ![r] = NoOutcome]
       [] res.act = "return" ->
            /\ pc' = [pc EXCEPT ![r] = "done"]
            /\ calls' = [calls EXCEPT ![r] = cs]
            /\ outcome' = [outcome EXCEPT ![r] = res.reply]
       [] OTHER ->
            /\ pc' = [pc EXCEPT ![r] = "done"]
            /\ calls' = [calls EXCEPT ![r] = cs]
            /\ outcome' = [outcome EXCEPT ![r] = Catch(rq, NonAxios(res.error))]

\* a request arrives and its handler runs up to its first await: the
\* login call, `await this.getSessionToken()` when the token is there, or
\* (API-key mode) the first await of the try block
Start(r, rq) ==
  /\ phase = "running"
  /\ rq.method \in handlers
  /\ pc[r] \in {"idle", "done"}
  /\ started < MaxRequests
  /\ started' = started + 1
  /\ req' = [req EXCEPT ![r] = rq]
  /\ responses' = [responses EXCEPT ![r] = <<>>]
  /\ CASE rq.method = "resources/list_templates" ->
            /\ pc' = [pc EXCEPT ![r] = "done"]
            /\ calls' = [calls EXCEPT ![r] = <<>>]
            /\ outcome' = [outcome EXCEPT ![r] = ListResourceTemplates]
            /\ UNCHANGED loginCalls
       [] rq.method = "tools/list" ->
            /\ pc' = [pc EXCEPT ![r] = "done"]
            /\ calls' = [calls EXCEPT ![r] = <<>>]
            /\ outcome' = [outcome EXCEPT ![r] = ListTools]
            /\ UNCHANGED loginCalls
       [] OTHER ->
            IF CallsGetSessionToken(env)
            THEN IF NeedsLogin(sessionToken)
                 THEN /\ pc' = [pc EXCEPT ![r] = "login"]
                      /\ calls' = [calls EXCEPT ![r] = <<LoginCall>>]
                      /\ outcome' = [outcome EXCEPT ![r] = NoOutcome]
                      /\ loginCalls' = loginCalls + 1
                 ELSE /\ pc' = [pc EXCEPT ![r] = "token"]
                      /\ calls' = [calls EXCEPT ![r] = <<>>]
                      /\ outcome' = [outcome EXCEPT ![r] = NoOutcome]
                      /\ UNCHANGED loginCalls
            ELSE /\ Continue(r, rq, 0, EmptyData, <<>>)
                 /\ UNCHANGED loginCalls
  /\ UNCHANGED <<env, phase, handlers, sessionToken, headers, loginOks,
                 loginFails>>

LoginOk_mut(r, tok) ==
  /\ pc[r] = "login"
  /\ sessionToken' = tok
  /\ headers' = IF headers.XMetabaseSession = Undef
                THEN [headers EXCEPT !.XMetabaseSession = tok]
                ELSE headers
  /\ loginOks' = loginOks + 1
  /\ loginFails' = 0
  /\ pc' = [pc EXCEPT ![r] = "token"]
  /\ UNCHANGED <<env, phase, handlers, req, calls, outcome, responses,
                 started, loginCalls>>

\* the login call of request r returns the session id tok: getSessionToken
\* stores it and returns; the handler awaiting it resumes later
LoginOk(r, tok) ==
  /\ pc[r] = "login"
  /\ sessionToken' = tok
  /\ headers' = [headers EXCEPT !.XMetabaseSession = tok]
  /\ loginOks' = loginOks + 1
  /\ loginFails' = 0
  /\ pc' = [pc EXCEPT ![r] = "token"]
  /\ UNCHANGED <<env, phase, handlers, req, calls, outcome, responses,
                 started, loginCalls>>

LoginFail_retry(r) ==
  /\ pc[r] = "login"
  /\ Len(calls[r]) < 3
  /\ calls' = [calls EXCEPT ![r] = Append(@, LoginCall)]
  /\ loginCalls' = loginCalls + 1
  /\ loginFails' = loginFails + 1
  /\ UNCHANGED <<env, phase, handlers, sessionToken, headers, req, pc,
                 outcome, responses, started, loginOks>>

\* getSessionToken has returned: the handler of request r resumes after
\* `await this.getSessionToken()` and runs its try block up to the first
\* await, return or throw
Resume(r) ==
  /\ pc[r] = "token"
  /\ Continue(r, req[r], 0, EmptyData, calls[r])
  /\ UNCHANGED <<env, phase, handlers, sessionToken, headers, req,
                 responses, started, loginCalls, loginOks, loginFails>>

\* the login call of request r fails: the catch clause of getSessionToken
\* runs and throws; the handler awaiting it has not seen the error yet
LoginFail(r) ==
  /\ pc[r] = "login"
  /\ sessionToken' = TokenAfterFailure(sessionToken)
  /\ pc' = [pc EXCEPT ![r] = "failed"]
  /\ loginFails' = loginFails + 1
  /\ UNCHANGED <<env, phase, handlers, headers, req, calls, outcome,
                 responses, started, loginCalls, loginOks>>

\* getSessionToken has thrown: `await this.getSessionToken()`, outside the
\* handler's try block, rejects and the error is the request's outcome
Reject(r) ==
  /\ pc[r] = "failed"
  /\ pc' = [pc EXCEPT ![r] = "done"]
  /\ outcome' = [outcome EXCEPT ![r] = AuthFailed]
  /\ UNCHANGED <<env, phase, handlers, sessionToken, headers, req, calls,
                 responses, started, loginCalls, loginOks, loginFails>>

\* the HTTP call request r awaits returns the body d
HttpOk(r, d) ==
  /\ pc[r] = "http"
  /\ d \in Responses(calls[r][Len(calls[r])])
  /\ responses' = [responses EXCEPT ![r] = Append(@, d)]
  /\ Continue(r, req[r], Len(BodyCalls(r)), d, calls[r])
  /\ UNCHANGED <<env, phase, handlers, sessionToken, headers, req, started,
                 loginCalls, loginOks, loginFails>>

HttpFail_retry(r, e) ==
  /\ pc[r] = "http"
  /\ Len(calls[r]) < 4
  /\ calls' = [calls EXCEPT ![r] = Append(@, calls[r][Len(calls[r])])]
  /\ UNCHANGED <<env, phase, handlers, sessionToken, headers, req, pc,
                 outcome, responses, started, loginCalls, loginOks,
                 loginFails>>

\* the HTTP call request r awaits fails with the AxiosError e
HttpFail(r, e) ==
  /\ pc[r] = "http"
  /\ pc' = [pc EXCEPT ![r] = "done"]
  /\ outcome' = [outcome EXCEPT ![r] = Catch(req[r], e)]
  /\ UNCHANGED <<env, phase, handlers, sessionToken, headers, req, calls,
                 responses, started, loginCalls, loginOks, loginFails>>

AllData == UNION {Responses(Call(v, rt, <<>>, NoBody)) :
                    v \in {"GET", "POST", "PUT"},
                    rt \in {"/api/database/{}", "/api/dashboard/{}",
                            "/api/dashboard", "/api/database/{}/metadata",
                            "/api/card"}}

\* requests are handled strictly one after another
Next ==
  \/ EnvironmentCheck
  \/ Constructor
  \/ \E rq \in AllRequests : Start(1, rq)
  \/ \E tok \in Tokens : LoginOk(1, tok)
  \/ LoginFail(1)
  \/ Resume(1)
  \/ Reject(1)
  \/ \E d \in AllData : HttpOk(1, d)
  \/ \E e \in Failures : HttpFail(1, e)

Spec == Init /\ [][Next]_vars

\* requests overlap at their await points
OverlapNext ==
  \/ EnvironmentCheck
  \/ Constructor
  \/ \E r \in Slots :
       \/ \E rq \in OverlapRequests : Start(r, rq)
       \/ \E tok \in Tokens : LoginOk(r, tok)
       \/ LoginFail(r)
       \/ Resume(r)
       \/ Reject(r)
       \/ \E d \in AllData : HttpOk(r, d)
       \/ \E e \in Failures : HttpFail(r, e)

\* one configuration per authentication mode
OverlapConfigs ==
  {[METABASE_URL |-> Str("http://mb"), METABASE_USERNAME |-> Undef,
    METABASE_PASSWORD |-> Undef, METABASE_API_KEY |-> Str("mb_key")],
   [METABASE_URL |-> Str("http://mb"), METABASE_USERNAME |-> Str("alice"),
    METABASE_PASSWORD |-> Str("secret"), METABASE_API_KEY |-> Undef]}

OverlapInit == Init /\ env \in OverlapConfigs

OverlapSpec == OverlapInit /\ [][OverlapNext]_vars

\* the HTTP call the request waits for completes, with success or failure,
\* or the handler resumes from getSessionToken (returned or thrown)
Completes ==
  \/ \E tok \in Tokens : LoginOk(1, tok)
  \/ LoginFail(1)
  \/ Resume(1)
  \/ Reject(1)
  \/ \E d \in AllData : HttpOk(1, d)
  \/ \E e \in Failures : HttpFail(1, e)

\* requests one at a time, one configuration per authentication mode, and
\* every HTTP call eventually completes
FairSpec == OverlapInit /\ [][Next]_vars /\ WF_vars(Completes)

(***************************************************************************)
(* Properties.                                                             *)
(***************************************************************************)
KeySet == Truthy(METABASE_API_KEY)
UserSet == Truthy(METABASE_USERNAME)
PassSet == Truthy(METABASE_PASSWORD)

\* the methods whose handlers authenticate
AuthMethods == {"resources/list", "resources/read", "tools/call"}

NoLoginIn(cs) == \A i \in 1..Len(cs) : ~IsLogin(cs[i])

\* request r needed no login and its handler is past getSessionToken
Resolved(r) == NoLoginIn(calls[r]) /\ pc[r] \in {"http", "done"}

\* C1: in API-key mode no request ever issues POST /api/session, and the
\* session credential stays the API-key sentinel set by the constructor.
C1_ApiKeyModeNeverLogsIn ==
  (phase = "running" /\ KeySet) =>
    /\ loginCalls = 0
    /\ \A r \in Slots : NoLoginIn(calls[r])
    /\ sessionToken = ApiKeySentinel

C1_Witness ==
  /\ phase = "running" /\ KeySet
  /\ started = MaxRequests
  /\ pc[1] = "done" /\ req[1].method = "tools/call"
  /\ Len(calls[1]) = 2

\* C2: in username/password mode, with requests handled one after another,
\* once a login call has succeeded no later request issues a login call, so
\* at most one login call succeeds in the whole run; the request that
\* follows goes straight to its own HTTP call.
C2_OneLoginWhenSequential ==
  [][/\ (loginOks >= 1 => loginCalls' = loginCalls)
     /\ loginOks' <= 1
     /\ (loginOks >= 1 /\ started' = started + 1 =>
           sessionToken' = sessionToken /\ NoLoginIn(calls'[1]))]_vars

C2_Witness ==
  /\ ~KeySet /\ loginOks = 1 /\ loginCalls = 1
  /\ started = MaxRequests
  /\ pc[1] = "done" /\ Len(calls[1]) = 1 /\ NoLoginIn(calls[1])
  /\ sessionToken \in Tokens

\* C3: in username/password mode a failed login leaves the credential unset
\* and installs no session header, and the next request that authenticates
\* issues a fresh login call, however many logins have failed in a row.
C3_FailedLoginIsRetried ==
  [][/\ (pc[1] = "login" /\ pc'[1] = "failed" =>
           /\ sessionToken' = Null
           /\ headers'.XMetabaseSession = Undef
           /\ loginFails' = loginFails + 1)
     /\ (loginFails > 0 =>
           sessionToken = Null /\ headers.XMetabaseSession = Undef)
     /\ (loginFails > 0 /\ started' = started + 1
           /\ req'[1].method \in AuthMethods =>
           /\ pc'[1] = "login"
           /\ calls'[1] = <<LoginCall>>
           /\ loginCalls' = loginCalls + 1)]_vars

C3_Witness ==
  /\ ~KeySet /\ loginFails = MaxRequests /\ loginFails >= 3
  /\ loginCalls = loginFails
  /\ pc[1] = "done" /\ outcome[1] = AuthFailed
  /\ sessionToken = Null

\* C4: the session credential is assigned at most once: once set it never
\* changes, also when requests overlap at their await points.
C4_CredentialNeverChanges ==
  [][Truthy(sessionToken) => sessionToken' = sessionToken]_vars

\* the configurations C5 speaks of: no auth mode at all, or only one of
\* username and password
NoAuthMode == ~KeySet /\ ~UserSet /\ ~PassSet
PartialPair == UserSet # PassSet
StartupFailed == phase \in {"load", "fatal"} /\ handlers = {}

\* C5 as stated: with both auth modes missing, or with only one of username
\* and password supplied, startup fails before a handler is registered.
C5_PartialPairAlwaysFatal ==
  (NoAuthMode \/ PartialPair) => StartupFailed

\* C5 as amended: with no API key and username or password missing, the
\* module-level check fails startup: the constructor never runs and no
\* handler is registered.
C5_NoKeyAndIncompletePairFatal ==
  (~KeySet /\ (~UserSet \/ ~PassSet)) => StartupFailed

C5_Witness ==
  /\ ~KeySet /\ UserSet /\ ~PassSet
  /\ phase = "fatal" /\ handlers = {}

\* uri matches none of the three patterns of the read handler
NoPattern(uri) ==
  \A i \in 1..Len(ResourceKinds) : ~UriMatch(uri, ResourceKinds[i])

\* C6: a resources/read of a URI that matches no pattern makes no HTTP call
\* at all and ends with invalid_request naming the URI.
C6_BadUriNoHttpCall ==
  \A r \in Slots :
    (req[r].method = "resources/read" /\ NoPattern(req[r].uri)) =>
      /\ calls[r] = <<>>
      /\ pc[r] = "done"
      /\ outcome[r] =
           McpError(InvalidRequest,
                    Template("Invalid URI format: ", req[r].uri))

DigitIds == {id \in IdStrings : id # <<>> /\ \A i \in 1..Len(id) : id[i] \in Digits}

ApiRoute(kind) ==
  CASE kind = "dashboard" -> "/api/dashboard/{}"
    [] kind = "card" -> "/api/card/{}"
    [] OTHER -> "/api/database/{}"

\* C7: with the credential resolved, a resources/read of
\* metabase://{kind}/{id}, id all digits, issues exactly one HTTP call, a GET
\* to /api/{kind}/{id}, and on success returns one content item carrying the
\* request's URI and the response body.
C7_ReadIssuesOneGet ==
  \A kind \in {"dashboard", "card", "database"}, id \in DigitIds :
    (/\ req[1].method = "resources/read"
     /\ req[1].uri = MetabaseUri(kind, id)
     /\ Resolved(1)) =>
      /\ Len(calls[1]) = 1
      /\ calls[1][1].verb = "GET"
      /\ calls[1][1].route = ApiRoute(kind)
      /\ calls[1][1].digits = id
      /\ (pc[1] = "done" /\ outcome[1].kind = "reply" =>
            /\ Len(responses[1]) = 1
            /\ Len(outcome[1].contents) = 1
            /\ outcome[1].contents[1].uri = req[1].uri
            /\ outcome[1].contents[1].text = JSONStringify(responses[1][1]))
      /\ (pc[1] = "done" /\ Len(responses[1]) = 1 =>
            outcome[1].kind = "reply")

C7_Witness ==
  /\ ~KeySet /\ sessionToken \in Tokens
  /\ req[1].method = "resources/read"
  /\ req[1].uri = MetabaseUri("database", <<"4", "2">>)
  /\ pc[1] = "done" /\ outcome[1].kind = "reply"
  /\ Len(calls[1]) = 1 /\ NoLoginIn(calls[1])

\* a tools/call of a catalog tool that leaves out a required argument
OmitsRequired(rq) ==
  /\ rq.method = "tools/call"
  /\ rq.name \in ToolNameSet
  /\ \E k \in Required(rq.name) : rq.args[k] = Undef

\* C8: a tools/call that omits a required argument issues no HTTP call, the
\* login call included, and ends with a protocol-level invalid_params error.
C8_MissingArgNoHttpCall ==
  \A r \in Slots :
    OmitsRequired(req[r]) =>
      /\ calls[r] = <<>>
      /\ pc[r] = "done"
      /\ outcome[r].kind = "error"
      /\ outcome[r].code = InvalidParams

\* C9: when an HTTP call made by a tool body fails, the tools/call ends
\* with a reply that has isError true and one text item, never with a
\* protocol-level error.
C9_ToolHttpFailureInBand ==
  [][(/\ req[1].method = "tools/call"
      /\ pc[1] = "http" /\ pc'[1] = "done"
      /\ responses'[1] = responses[1]) =>
        /\ outcome'[1].kind = "reply"
        /\ outcome'[1].isError
        /\ Len(outcome'[1].content) = 1
        /\ outcome'[1].content[1].type = "text"
        /\ outcome'[1].content[1].text.tmpl = "Metabase API error: "
        /\ calls'[1] = calls[1]]_vars

C9_Witness ==
  /\ req[1].method = "tools/call"
  /\ req[1].name = "add_card_to_dashboard"
  /\ pc[1] = "done" /\ outcome[1].kind = "reply" /\ outcome[1].isError
  /\ Len(BodyCalls(1)) = 2 /\ Len(responses[1]) = 1

\* C10: a tools/call naming no catalog tool ends with a reply that has
\* isError true and names the tool, never with a protocol-level error, in
\* every auth mode and credential state.
C10_UnknownToolInBand ==
  \A r \in Slots :
    (/\ req[r].method = "tools/call"
     /\ req[r].name \notin ToolNameSet
     /\ pc[r] = "done") =>
       outcome[r] = ErrorReply(Template("Unknown tool: ", req[r].name))

\* request r is a tools/call of the catalog tool `name`
IsTool(r, name) == req[r].method = "tools/call" /\ req[r].name = name

\* the first response of request r came from a database of engine e
EngineIs(r, e) == Len(responses[r]) >= 1 /\ responses[r][1].engine = e

GetDatabase(id) == Call("GET", "/api/database/{}", <<id>>, NoBody)

\* an execute_query with database_id and query but without a collection,
\* answered by a database whose engine is "mongo"
MongoWithoutCollection(r) ==
  /\ IsTool(r, "execute_query")
  /\ Truthy(req[r].args.database_id) /\ Truthy(req[r].args.query)
  /\ req[r].args.collection = Undef
  /\ EngineIs(r, Str("mongo"))

CollectionRequired ==
  McpError(InvalidParams, "Collection name is required for MongoDB queries")

\* C11 as stated: execute_query without a collection against a "mongo"
\* database fails with invalid_params and the request issues no POST at
\* all.
C11_MongoNoCollectionNoPost ==
  MongoWithoutCollection(1) =>
    /\ pc[1] = "done" /\ outcome[1] = CollectionRequired
    /\ \A i \in 1..Len(calls[1]) : calls[1][i].verb # "POST"

\* C11 as amended: it fails with invalid_params after the one GET of the
\* database, and the only POST the request may have issued is the login
\* call that precedes the tool in username/password mode.
C11_MongoNoCollectionNoDatasetPost ==
  MongoWithoutCollection(1) =>
    /\ pc[1] = "done" /\ outcome[1] = CollectionRequired
    /\ BodyCalls(1) = <<GetDatabase(req[1].args.database_id)>>
    /\ \A i \in 1..Len(calls[1]) :
         calls[1][i].verb = "POST" => IsLogin(calls[1][i])

C11_Witness ==
  /\ MongoWithoutCollection(1)
  /\ ~KeySet /\ Len(calls[1]) = 2 /\ IsLogin(calls[1][1])
  /\ outcome[1] = CollectionRequired

\* an execute_query with database_id, query and collection, which needed no
\* login
QueryWithCollection(r) ==
  /\ IsTool(r, "execute_query")
  /\ Truthy(req[r].args.database_id) /\ Truthy(req[r].args.query)
  /\ Truthy(req[r].args.collection)
  /\ Resolved(r)

\* C12: with the credential resolved, execute_query with database_id, query
\* and collection issues GET /api/database/{id} and then, once the engine
\* is known, POST /api/dataset, and nothing else; for engine "mongo" the
\* POST body's native object carries the collection and the query string
\* and the body's database is database_id.
C12_QueryGetThenPost ==
  QueryWithCollection(1) =>
    /\ Len(calls[1]) \in {1, 2}
    /\ calls[1][1] = GetDatabase(req[1].args.database_id)
    /\ (Len(responses[1]) >= 1 =>
          /\ Len(calls[1]) = 2
          /\ calls[1][2].verb = "POST"
          /\ calls[1][2].route = "/api/dataset"
          /\ calls[1][2].body.database = req[1].args.database_id
          /\ calls[1][2].body.type = "native")
    /\ (Len(responses[1]) = 0 => Len(calls[1]) = 1)
    /\ (EngineIs(1, Str("mongo")) =>
          /\ calls[1][2].body.native.hasCollection
          /\ calls[1][2].body.native.collection = req[1].args.collection
          /\ calls[1][2].body.native.query.t = "string"
          /\ (req[1].args.query.t = "string" =>
                calls[1][2].body.native.query = req[1].args.query))

C12_Witness ==
  /\ QueryWithCollection(1) /\ EngineIs(1, Str("mongo"))
  /\ pc[1] = "done" /\ outcome[1].kind = "reply" /\ ~outcome[1].isError
  /\ Len(calls[1]) = 2 /\ Len(responses[1]) = 2

\* C13: against a database whose engine is not "mongo", execute_query
\* POSTs a native body without a collection field, whether or not a
\* collection was supplied, and never fails for a missing collection.
C13_SqlBodyHasNoCollection ==
  (/\ IsTool(1, "execute_query")
   /\ Len(responses[1]) >= 1
   /\ responses[1][1].engine # Str("mongo")) =>
     /\ Len(BodyCalls(1)) = 2
     /\ BodyCalls(1)[2].verb = "POST"
     /\ BodyCalls(1)[2].route = "/api/dataset"
     /\ ~BodyCalls(1)[2].body.native.hasCollection
     /\ BodyCalls(1)[2].body.native.query = req[1].args.query
     /\ outcome[1] # CollectionRequired
     /\ (pc[1] = "done" => outcome[1].kind = "reply")

C13_Witness ==
  /\ IsTool(1, "execute_query")
  /\ req[1].args.collection = Str("events")
  /\ EngineIs(1, Str("postgres"))
  /\ pc[1] = "done" /\ outcome[1].kind = "reply" /\ ~outcome[1].isError
  /\ Len(BodyCalls(1)) = 2

\* the tool body of request r has run: the credential was there or the
\* login succeeded
ToolRan(r) == pc[r] \in {"http", "done"} /\ outcome[r] # AuthFailed

\* the one call a delete tool makes for entity `route` with identifier id
DeleteCalls(route, id, hard) ==
  IF hard = Bool(TRUE)
  THEN <<Call("DELETE", route, <<id>>, NoBody)>>
  ELSE <<Call("PUT", route, <<id>>, [archived |-> Bool(TRUE)])>>

\* C14: delete_card and delete_dashboard with a valid id issue exactly one
\* call: with hard_delete absent or false a PUT to the entity with body
\* {archived: true} and never a DELETE, with hard_delete true a DELETE and
\* never a PUT.
C14_DeleteIsArchiveOrDelete ==
  /\ (IsTool(1, "delete_card") /\ Truthy(req[1].args.card_id)
      /\ req[1].args.hard_delete \in {Undef, Bool(FALSE), Bool(TRUE)}
      /\ ToolRan(1)) =>
       BodyCalls(1) = DeleteCalls("/api/card/{}", req[1].args.card_id,
                                  req[1].args.hard_delete)
  /\ (IsTool(1, "delete_dashboard") /\ Truthy(req[1].args.dashboard_id)
      /\ req[1].args.hard_delete \in {Undef, Bool(FALSE), Bool(TRUE)}
      /\ ToolRan(1)) =>
       BodyCalls(1) = DeleteCalls("/api/dashboard/{}",
                                  req[1].args.dashboard_id,
                                  req[1].args.hard_delete)

C14_Witness ==
  /\ IsTool(1, "delete_card") /\ req[1].args.hard_delete = Bool(FALSE)
  /\ pc[1] = "done" /\ outcome[1].kind = "reply" /\ ~outcome[1].isError
  /\ Len(BodyCalls(1)) = 1 /\ BodyCalls(1)[1].verb = "PUT"

\* the dashcards a dashboard response carries (none when the field is absent)
Dashcards(d) == IF d.dashcards.present THEN d.dashcards.items ELSE <<>>

\* C15: once the GET of the dashboard has returned K dashcards,
\* add_card_to_dashboard has issued GET /api/dashboard/{id} and then
\* PUT /api/dashboard/{id}/cards whose cards array has K+1 entries: the K
\* existing ones in their order, then one with the supplied card_id and
\* id -1, which no existing dashcard has.
C15_AddCardAppendsOne ==
  (IsTool(1, "add_card_to_dashboard") /\ Len(responses[1]) >= 1) =>
    LET old == Dashcards(responses[1][1])
        K == Len(old)
        cs == BodyCalls(1)
        cards == cs[2].body.cards
    IN /\ Len(cs) = 2
       /\ cs[1] = Call("GET", "/api/dashboard/{}",
                       <<req[1].args.dashboard_id>>, NoBody)
       /\ cs[2].verb = "PUT" /\ cs[2].route = "/api/dashboard/{}/cards"
       /\ cs[2].args = <<req[1].args.dashboard_id>>
       /\ Len(cards) = K + 1
       /\ \A i \in 1..K : /\ cards[i].id = old[i].id
                          /\ cards[i].card_id = old[i].card_id
                          /\ cards[i].id # cards[K + 1].id
       /\ cards[K + 1].id = Num(-1)
       /\ cards[K + 1].card_id = req[1].args.card_id

C15_Witness ==
  /\ IsTool(1, "add_card_to_dashboard")
  /\ Len(responses[1]) = 2 /\ Len(Dashcards(responses[1][1])) = 2
  /\ pc[1] = "done" /\ outcome[1].kind = "reply" /\ ~outcome[1].isError
  /\ Len(BodyCalls(1)[2].body.cards) = 3

\* request r is an update tool called with its identifier and nothing else
UpdateWithoutFields(r) ==
  \/ IsTool(r, "update_dashboard") /\ req[r].args = Pick({"dashboard_id"})
  \/ IsTool(r, "update_card") /\ req[r].args = Pick({"card_id"})

\* C16: update_dashboard with only dashboard_id, and update_card with only
\* card_id, fail with invalid_params having issued no HTTP call of any
\* kind, whatever the authentication mode and the credential.
C16_UpdateWithoutFieldsNoHttpCall ==
  UpdateWithoutFields(1) =>
    /\ calls[1] = <<>>
    /\ pc[1] = "done"
    /\ outcome[1].kind = "error" /\ outcome[1].code = InvalidParams

\* the JSON object a successful reply carries as its text
ReplyJson(r) == outcome[r].content[1].text.json

QuestionLink(id) == Template(METABASE_URL, Template("/question/", id))

\* C17: whenever create_card succeeds, the returned object's _link is
\* {baseURL}/question/{newId}, the id being the one in the service's
\* response, also when that response carries a _link of its own.
C17_CreateCardLink ==
  (/\ IsTool(1, "create_card") /\ pc[1] = "done"
   /\ outcome[1].kind = "reply" /\ ~outcome[1].isError) =>
     /\ Len(responses[1]) = 1
     /\ ReplyJson(1)._link = QuestionLink(responses[1][1].id)
     /\ ReplyJson(1).data.link = QuestionLink(responses[1][1].id)

C17_Witness ==
  /\ IsTool(1, "create_card") /\ pc[1] = "done"
  /\ outcome[1].kind = "reply" /\ ~outcome[1].isError
  /\ Len(responses[1]) = 1 /\ responses[1][1].link = Str("x")
  /\ ReplyJson(1)._link = QuestionLink(Num(9))

StaticMethods == {"tools/list", "resources/list_templates"}

TemplateUris ==
  <<"metabase://dashboard/{id}", "metabase://card/{id}",
    "metabase://database/{id}">>

\* C18: a tools/list or resources/list_templates request, in any
\* authentication mode and credential state, issues no HTTP call (no login
\* either), leaves the credential as it was and returns the fixed result:
\* 19 tool descriptors, respectively 3 resource templates.
C18_StaticListsAreFixed ==
  [][(started' = started + 1 /\ req'[1].method \in StaticMethods) =>
       /\ calls'[1] = <<>> /\ loginCalls' = loginCalls
       /\ sessionToken' = sessionToken /\ headers' = headers
       /\ pc'[1] = "done" /\ outcome'[1].kind = "reply"
       /\ (req'[1].method = "tools/list" =>
             /\ Len(outcome'[1].tools) = 19
             /\ Cardinality({outcome'[1].tools[i].name : i \in 1..19}) = 19
             /\ \A i \in 1..19 : outcome'[1].tools[i].name = ToolNames[i])
       /\ (req'[1].method = "resources/list_templates" =>
             /\ Len(outcome'[1].resourceTemplates) = 3
             /\ \A i \in 1..3 :
                  outcome'[1].resourceTemplates[i].uriTemplate
                    = TemplateUris[i])]_vars

C18_Witness ==
  /\ req[1].method = "tools/list" /\ pc[1] = "done"
  /\ ~KeySet /\ sessionToken = Null /\ loginFails > 0
  /\ Len(outcome[1].tools) = 19 /\ calls[1] = <<>>

\* an outcome that reports a failure: a protocol error or an error reply
ReportsFailure(o) ==
  \/ o.kind = "error"
  \/ o.kind = "reply" /\ o.isError

\* C19: once an HTTP call of a request fails (the login call or a call of
\* the handler body), the request is over: it issues no further call, no
\* retry and no compensating write, and the failure is its one outcome,
\* which stays until the next request arrives.
C19_FailureEndsRequest ==
  [][/\ (pc[1] = "http" /\ responses'[1] = responses[1]) =>
          /\ pc'[1] = "done" /\ calls'[1] = calls[1]
          /\ loginCalls' = loginCalls
          /\ ReportsFailure(outcome'[1])
     /\ (pc[1] = "login" /\ loginOks' = loginOks) =>
          /\ pc'[1] = "failed" /\ calls'[1] = calls[1]
          /\ loginCalls' = loginCalls
     /\ (pc[1] = "failed") =>
          /\ pc'[1] = "done" /\ calls'[1] = calls[1]
          /\ loginCalls' = loginCalls
          /\ outcome'[1] = AuthFailed
     /\ (pc[1] = "done" /\ started' = started) =>
          /\ pc'[1] = "done" /\ calls'[1] = calls[1]
          /\ outcome'[1] = outcome[1]]_vars

C19_Witness ==
  /\ IsTool(1, "update_dashboard_card") /\ pc[1] = "done"
  /\ ~KeySet /\ Len(calls[1]) = 3 /\ IsLogin(calls[1][1])
  /\ calls[1][3].verb = "PUT" /\ Len(responses[1]) = 1
  /\ outcome[1].kind = "reply" /\ outcome[1].isError

\* C20: in username/password mode nothing serializes logins: a request
\* that starts while no token is stored issues its own POST /api/session,
\* whether or not another request's login is in flight, so two requests
\* started before any login completes have two login calls in flight.
C20_EveryEarlyRequestLogsIn ==
  [][\A r \in Slots :
       (/\ ~KeySet /\ ~Truthy(sessionToken)
        /\ started' = started + 1
        /\ pc[r] \in {"idle", "done"} /\ pc'[r] \in {"login", "token", "failed", "http"}) =>
          /\ pc'[r] = "login"
          /\ calls'[r] = <<LoginCall>>
          /\ loginCalls' = loginCalls + 1]_vars

C20_Witness ==
  /\ ~KeySet /\ sessionToken = Null /\ loginOks = 0 /\ loginFails = 0
  /\ pc[1] = "login" /\ pc[2] = "login"
  /\ calls[1] = <<LoginCall>> /\ calls[2] = <<LoginCall>>
  /\ loginCalls = 2

\* the value a field of the target dashcard must have: the supplied one,
\* or the old one when none was supplied
Supplied(v, old) == IF v = Undef THEN old ELSE v

\* position and size of the PUT entry c are those of the dashcard dc
SamePlace(c, dc) ==
  /\ c.row = dc.row /\ c.col = dc.col
  /\ c.size_x = dc.size_x /\ c.size_y = dc.size_y

\* request r has issued the GET of its dashboard and then the PUT of the
\* cards
GetThenPutCards(r) ==
  /\ Len(BodyCalls(r)) = 2
  /\ BodyCalls(r)[1] = Call("GET", "/api/dashboard/{}",
                            <<req[r].args.dashboard_id>>, NoBody)
  /\ BodyCalls(r)[2].verb = "PUT"
  /\ BodyCalls(r)[2].route = "/api/dashboard/{}/cards"
  /\ BodyCalls(r)[2].args = <<req[r].args.dashboard_id>>

\* what C21 says of the PUT of request 1, given the value the target
\* entry's parameter_mappings must have when none is supplied and the old
\* entry is dc
UpdateRewrites(kept(_)) ==
  LET a == req[1].args
      old == Dashcards(responses[1][1])
      cards == BodyCalls(1)[2].body.cards
  IN /\ GetThenPutCards(1)
     /\ Len(cards) = Len(old)
     /\ \A i \in 1..Len(old) :
          /\ cards[i].id = old[i].id
          /\ cards[i].card_id = old[i].card_id
          /\ IF old[i].id = a.dashcard_id
             THEN /\ cards[i].row = Supplied(a.row, old[i].row)
                  /\ cards[i].col = Supplied(a.col, old[i].col)
                  /\ cards[i].size_x = Supplied(a.size_x, old[i].size_x)
                  /\ cards[i].size_y = Supplied(a.size_y, old[i].size_y)
                  /\ cards[i].parameter_mappings =
                       Supplied(a.parameter_mappings, kept(old[i]))
             ELSE SamePlace(cards[i], old[i])

\* C21 as stated: once the GET of the dashboard has returned K dashcards,
\* update_dashboard_card has issued that GET and then the PUT of a cards
\* array of length K in the same order; the entry whose id is dashcard_id
\* takes each supplied row, col, size_x, size_y and parameter_mappings and
\* keeps its old value for each one not supplied; every other entry keeps
\* its id, card_id, row, col, size_x and size_y.
C21_TargetKeepsOldValues ==
  (IsTool(1, "update_dashboard_card") /\ Len(responses[1]) >= 1) =>
    UpdateRewrites(LAMBDA dc : dc.parameter_mappings)

\* C21 as amended: the same, except that a parameter_mappings that is not
\* supplied keeps its old value only when the old entry has one: an old
\* entry without parameter_mappings (missing, null or otherwise falsy) is
\* written with the empty list.
C21_UpdateRewritesTarget ==
  (IsTool(1, "update_dashboard_card") /\ Len(responses[1]) >= 1) =>
    UpdateRewrites(LAMBDA dc : IF Truthy(dc.parameter_mappings)
                               THEN dc.parameter_mappings
                               ELSE Arr(0))

C21_Witness ==
  /\ IsTool(1, "update_dashboard_card")
  /\ req[1].args.dashcard_id = Num(12) /\ req[1].args.row = Num(2)
  /\ req[1].args.parameter_mappings = Undef
  /\ Len(responses[1]) = 2 /\ Len(Dashcards(responses[1][1])) = 2
  /\ Dashcards(responses[1][1])[2].parameter_mappings = Undef
  /\ pc[1] = "done" /\ ~outcome[1].isError
  /\ BodyCalls(1)[2].body.cards[2].row = Num(2)
  /\ BodyCalls(1)[2].body.cards[2].col = Num(0)
  /\ BodyCalls(1)[2].body.cards[2].parameter_mappings = Arr(0)
  /\ SamePlace(BodyCalls(1)[2].body.cards[1], DC1)

\* C22: resources/list returns one resource descriptor per dashboard of the
\* service's response, in the response's order, each with the uri
\* metabase://dashboard/{id} of its dashboard: nothing is dropped,
\* duplicated or reordered.
C22_ListKeepsOrder ==
  (/\ req[1].method = "resources/list" /\ pc[1] = "done"
   /\ outcome[1].kind = "reply") =>
     LET list == responses[1][1].list
         res == outcome[1].resources
     IN /\ Len(responses[1]) = 1
        /\ Len(res) = Len(list)
        /\ \A i \in 1..Len(list) :
             /\ res[i].uri.tmpl = "metabase://dashboard/"
             /\ res[i].uri.arg = list[i].id
             /\ res[i].name = list[i].name

C22_Witness ==
  /\ req[1].method = "resources/list" /\ pc[1] = "done"
  /\ outcome[1].kind = "reply" /\ Len(outcome[1].resources) = 2
  /\ outcome[1].resources[1].uri.arg = Num(5)
  /\ outcome[1].resources[2].uri.arg = Num(2)

\* C23: in username/password mode, when the login call of a resources/list,
\* resources/read or tools/call request fails, the request ends with the
\* protocol error internal_error (for tools/call too, not an isError
\* reply) and has issued no call but the failed login.
C23_FailedLoginIsInternalError ==
  [][/\ (pc[1] = "login" /\ loginFails' = loginFails + 1) =>
          /\ ~KeySet /\ req[1].method \in AuthMethods
          /\ pc'[1] = "failed"
          /\ calls'[1] = <<LoginCall>>
     /\ (pc[1] = "failed") =>
          /\ pc'[1] = "done"
          /\ outcome'[1].kind = "error"
          /\ outcome'[1].code = InternalError
          /\ calls'[1] = <<LoginCall>>
          /\ responses'[1] = <<>>]_vars

C23_Witness ==
  /\ IsTool(1, "list_cards") /\ pc[1] = "done" /\ ~KeySet
  /\ loginFails = 1 /\ calls[1] = <<LoginCall>>
  /\ outcome[1].kind = "error" /\ outcome[1].code = InternalError

\* C24: in username/password mode, overlapping requests included, a
\* request has issued a call other than POST /api/session only if a login
\* call has returned successfully and the session token is stored (and
\* set as the client's session header).
C24_NoCallBeforeToken ==
  ~KeySet =>
    \A r \in Slots :
      BodyCalls(r) # <<>> =>
        /\ loginOks >= 1
        /\ sessionToken \in Tokens
        /\ headers.XMetabaseSession = sessionToken

C24_Witness ==
  /\ ~KeySet /\ loginOks = 1 /\ loginCalls = 2
  /\ pc[1] = "login" /\ calls[1] = <<LoginCall>>
  /\ pc[2] = "http" /\ Len(BodyCalls(2)) = 1
  /\ sessionToken \in Tokens

\* C28: update_dashboard_card with a dashcard_id that no dashcard of the
\* dashboard has does not fail: it issues the GET and then the PUT of the
\* cards, and the PUT carries every existing entry with its position and
\* size unchanged.
C28_UnknownDashcardStillPuts ==
  (/\ IsTool(1, "update_dashboard_card") /\ Len(responses[1]) >= 1
   /\ \A i \in 1..Len(Dashcards(responses[1][1])) :
        Dashcards(responses[1][1])[i].id # req[1].args.dashcard_id) =>
     LET old == Dashcards(responses[1][1])
         cards == BodyCalls(1)[2].body.cards
     IN /\ GetThenPutCards(1)
        /\ outcome[1].kind # "error"
        /\ (Len(responses[1]) = 2 =>
              /\ pc[1] = "done" /\ outcome[1].kind = "reply"
              /\ ~outcome[1].isError)
        /\ Len(cards) = Len(old)
        /\ \A i \in 1..Len(old) :
             /\ cards[i].id = old[i].id
             /\ SamePlace(cards[i], old[i])

C28_Witness ==
  /\ IsTool(1, "update_dashboard_card")
  /\ req[1].args.dashcard_id = Num(99) /\ req[1].args.col = Num(3)
  /\ Len(responses[1]) = 2 /\ Len(Dashcards(responses[1][1])) = 2
  /\ pc[1] = "done" /\ outcome[1].kind = "reply" /\ ~outcome[1].isError
  /\ BodyCalls(1)[2].body.cards[1].col = Num(0)

\* request r is an add_card_to_dashboard whose PUT has been issued
AddCardPut(r) ==
  /\ IsTool(r, "add_card_to_dashboard")
  /\ Len(responses[r]) >= 1 /\ Len(BodyCalls(r)) = 2

\* C25: the cards an add_card_to_dashboard PUTs are the K dashcards of its
\* own GET and its own new card, whatever other requests have in flight;
\* so two such requests on one dashboard that both GET the same K entries
\* before either PUT each PUT K+1 entries, and the later PUT does not
\* carry the card of the earlier one: an update is lost.
C25_PutIsOwnGetPlusOne ==
  \A r \in Slots :
    AddCardPut(r) =>
      LET old == Dashcards(responses[r][1])
          cards == BodyCalls(r)[2].body.cards
      IN /\ Len(cards) = Len(old) + 1
         /\ \A i \in 1..Len(old) : cards[i].id = old[i].id
         /\ cards[Len(old) + 1].id = Num(-1)
         /\ cards[Len(old) + 1].card_id = req[r].args.card_id

C25_Witness ==
  /\ AddCardPut(1) /\ AddCardPut(2)
  /\ req[1].args.dashboard_id = req[2].args.dashboard_id
  /\ pc[1] = "http" /\ pc[2] = "http"
  /\ Len(responses[1]) = 1 /\ Len(responses[2]) = 1
  /\ responses[1][1] = responses[2][1]
  /\ Len(Dashcards(responses[1][1])) = 1
  /\ Len(BodyCalls(1)[2].body.cards) = 2
  /\ Len(BodyCalls(2)[2].body.cards) = 2

\* C26: in username/password mode, at every await boundary the client's
\* session header is set exactly when the session token is set, and then
\* both hold the same token, also after two racing logins have completed.
C26_HeaderFollowsToken ==
  ~KeySet =>
    /\ Truthy(headers.XMetabaseSession) <=> Truthy(sessionToken)
    /\ Truthy(sessionToken) => headers.XMetabaseSession = sessionToken
    /\ headers.XApiKey = Undef

C26_Witness ==
  /\ ~KeySet /\ started = 2 /\ loginCalls = 2 /\ loginOks = 2
  /\ sessionToken = Str("tok2")
  /\ headers.XMetabaseSession = Str("tok2")
  /\ pc[1] = "http" /\ pc[2] = "http"

\* the login calls request r has issued
LoginsOf(r) == SelectSeq(calls[r], IsLogin)

\* C27: if every HTTP call eventually completes, every request eventually
\* has its one outcome, a reply or a protocol error, and it never issues
\* more than three HTTP calls: at most one login and at most two calls to
\* the service.
C27_RequestsTerminate ==
  /\ [](/\ Len(calls[1]) <= 3
        /\ Len(LoginsOf(1)) <= 1
        /\ Len(BodyCalls(1)) <= 2
        /\ (pc[1] = "done" <=> outcome[1].kind \in {"reply", "error"}))
  /\ (pc[1] \in {"login", "token", "failed", "http"}) ~> (pc[1] = "done")

C27_Witness ==
  /\ IsTool(1, "add_card_to_dashboard") /\ pc[1] = "done"
  /\ Len(calls[1]) = 3 /\ Len(LoginsOf(1)) = 1 /\ Len(BodyCalls(1)) = 2
  /\ outcome[1].kind = "reply" /\ ~outcome[1].isError

\* C29: with an API key and a username and/or a password configured (and
\* the base URL), startup succeeds in API-key mode, no request ever issues
\* a login call, and so the username and password are never sent.
C29_KeyWinsOverPassword ==
  (KeySet /\ (UserSet \/ PassSet) /\ Truthy(METABASE_URL)) =>
    /\ phase # "fatal"
    /\ (phase = "running" =>
          /\ handlers = RegisteredHandlers
          /\ sessionToken = ApiKeySentinel
          /\ headers.XApiKey = METABASE_API_KEY
          /\ headers.XMetabaseSession = Undef)
    /\ loginCalls = 0
    /\ \A i \in 1..Len(calls[1]) :
         /\ ~IsLogin(calls[1][i])
         /\ calls[1][i].body # LoginCall.body

C29_Witness ==
  /\ KeySet /\ UserSet /\ PassSet /\ phase = "running"
  /\ started = 2 /\ pc[1] = "done" /\ IsTool(1, "execute_card")
  /\ Len(calls[1]) = 1 /\ outcome[1].kind = "reply"

====
